---- MODULE Spec2Model ----
(***************************************************************************)
(* faster_whisper_server.py: a FastAPI application with one module-level   *)
(* WhisperModel, a GET /health route and a POST /v1/audio/transcriptions   *)
(* route, served by uvicorn on a single asyncio event loop.                *)
(*                                                                         *)
(* The script's statements are the actions.  A coroutine holds the event   *)
(* loop (variable loop) from the moment it is entered or resumed until it  *)
(* awaits something that is not ready or returns; the only await of the    *)
(* program is `await file.read()` on line 50.                              *)
(*                                                                         *)
(* Two third-party parts are stand-ins, stated here once:                  *)
(*  - WhisperModel.transcribe is a deterministic function of the audio it  *)
(*    is given: an upload with no frames cannot be decoded and makes the   *)
(*    call itself raise; otherwise the returned generator yields one       *)
(*    segment per frame and raises when it reaches a corrupt frame.        *)
(*  - FastAPI answers with the route's default status 200 and the JSON     *)
(*    encoding of whatever the handler returned: a dict becomes a JSON     *)
(*    object, a tuple becomes a JSON array.                                *)
(***************************************************************************)
EXTENDS Integers, Sequences, FiniteSets, TLC

\* ---------------------------------------------------------------- bounds
MaxRequests == 2      \* requests the server receives in one run

\* ------------------------------------------------------- values and inputs
Requests == 1..MaxRequests
\* a frame of audio: 0 is silence, 1 and 2 are speech, 3 cannot be decoded
CorruptFrame == 3

\* the uploaded files a client may send: the empty file, silence, one frame
\* of speech, speech after speech, and speech followed by a frame that cannot
\* be decoded
Uploads == {<<>>, <<0>>, <<1>>, <<2>>, <<2, 1>>, <<1, CorruptFrame>>}

\* the optional multipart fields a client may send next to `file`
NoForm == [model |-> "absent", language |-> "absent"]
Forms == {NoForm,
          [model |-> "whisper-1", language |-> "absent"],
          [model |-> "large-v3", language |-> "en"]}

Unset == <<-1>>                       \* a local that has not been assigned
NoModel == [id |-> 0, size |-> "", device |-> "", compute_type |-> ""]
NoRequest == [route |-> "none", file |-> <<>>, form |-> NoForm]
NoValue == [py |-> "none", items |-> {}, code |-> 0]
NoResponse == [status |-> 0, json |-> "none", items |-> {}, rest |-> <<>>]

VARIABLES
    mainPc,        \* position of the script's top-level code
    MODEL_SIZE,    \* module global, line 27
    model,         \* module global, line 30
    loads,         \* number of WhisperModel(...) constructions so far
    loop,          \* the request whose coroutine runs on the event loop, 0 if none
    req,           \* req[r]: request r as the server received it
    pc,            \* pc[r]: position of r's handler
    audio_bytes,   \* audio_bytes[r]: the handler's local, line 50
    calls,         \* calls[r]: the model.transcribe calls r's handler made
    retval,        \* retval[r]: what r's handler returned
    response       \* response[r]: what the client of r received

vars == <<mainPc, MODEL_SIZE, model, loads, loop, req, pc, audio_bytes,
          calls, retval, response>>

\* ------------------------------------------------------------ the script
Init ==
    /\ mainPc = "line27"
    /\ MODEL_SIZE = ""
    /\ model = NoModel
    /\ loads = 0
    /\ loop = 0
    /\ req = [r \in Requests |-> NoRequest]
    /\ pc = [r \in Requests |-> "none"]
    /\ audio_bytes = [r \in Requests |-> Unset]
    /\ calls = [r \in Requests |-> <<>>]
    /\ retval = [r \in Requests |-> NoValue]
    /\ response = [r \in Requests |-> NoResponse]

handlerVars == <<loop, req, pc, audio_bytes, calls, retval, response>>

\* line 27: MODEL_SIZE = "base"
AssignModelSize ==
    /\ mainPc = "line27"
    /\ MODEL_SIZE' = "base"
    /\ mainPc' = "line30"
    /\ UNCHANGED <<model, loads, handlerVars>>

\* line 30: model = WhisperModel(MODEL_SIZE, device="cpu", compute_type="int8")
LoadModel ==
    /\ mainPc = "line30"
    /\ loads' = loads + 1
    /\ model' = [id |-> loads + 1, size |-> MODEL_SIZE,
                 device |-> "cpu", compute_type |-> "int8"]
    /\ mainPc' = "line85"
    /\ UNCHANGED <<MODEL_SIZE, handlerVars>>

\* line 30 raising (no weights, no network): the script ends with a traceback
LoadModelFails ==
    /\ mainPc = "line30"
    /\ mainPc' = "crashed"
    /\ UNCHANGED <<MODEL_SIZE, model, loads, handlerVars>>

\* line 85: uvicorn.run(app, host="0.0.0.0", port=8000)
RunServer ==
    /\ mainPc = "line85"
    /\ mainPc' = "serving"
    /\ UNCHANGED <<MODEL_SIZE, model, loads, handlerVars>>

\* ------------------------------------------------------- Python values
\* a dict with string keys and string values, as the set of its items
Dict(items) == [py |-> "dict", items |-> items, code |-> 0]
\* the 2-tuple (dict, int)
DictIntTuple(items, n) == [py |-> "tuple", items |-> items, code |-> n]

\* faulty variant of Join: the separator is written after every element
RECURSIVE JoinTrailingSep(_, _)
JoinTrailingSep(sep, xs) ==
    IF xs = <<>> THEN ""
    ELSE xs[1] \o sep \o JoinTrailingSep(sep, Tail(xs))

\* str.join, line 62: sep.join(xs)
RECURSIVE Join(_, _)
Join(sep, xs) ==
    IF xs = <<>> THEN ""
    ELSE IF Len(xs) = 1 THEN xs[1]
    ELSE xs[1] \o sep \o Join(sep, Tail(xs))

\* ------------------------------------------- WhisperModel.transcribe stand-in
\* the call itself decodes the audio and raises when there is nothing to decode
DecodeRaises(audio) == Len(audio) = 0
DecodeMessage == "Invalid data found when processing input"
\* the generator raises when it reaches a corrupt frame
GeneratorRaises(audio) == \E i \in 1..Len(audio) : audio[i] = CorruptFrame
GeneratorMessage == "Error decoding frame"
\* the texts of the segments made from one frame: none for silence, one or two
\* for speech (Whisper's texts usually start with a space)
FrameTexts(b) ==
    IF b = 1 THEN <<" a">>
    ELSE IF b = 2 THEN <<" b", "c">>
    ELSE <<>>
\* [segment.text for segment in segments], when the generator does not raise
RECURSIVE SegmentTexts(_)
SegmentTexts(audio) ==
    IF audio = <<>> THEN <<>>
    ELSE FrameTexts(Head(audio)) \o SegmentTexts(Tail(audio))

ReadMessage == "I/O operation on closed file"

\* --------------------------------------------------------- FastAPI stand-in
\* a route declared without status_code answers 200 with the JSON encoding of
\* the returned value; a tuple is encoded as a JSON array
JsonResponse(v) ==
    [status |-> 200,
     json   |-> IF v.py = "dict" THEN "object" ELSE "array",
     items  |-> v.items,
     rest   |-> IF v.py = "tuple" THEN <<v.code>> ELSE <<>>]

\* faulty variant of Serving: the server is started before the model is loaded
ServingBeforeLoad == mainPc \in {"line30", "line85", "serving"}

\* uvicorn serves requests once uvicorn.run has been called, line 85
Serving == mainPc = "serving"

scriptVars == <<mainPc, MODEL_SIZE, model, loads>>

\* a request reaches the server; FastAPI parses the multipart form and binds
\* the handler's only parameter, file (line 39)
Arrive(r) ==
    /\ Serving
    /\ loop = 0
    /\ pc[r] = "none"
    /\ IF r = 1 THEN TRUE ELSE pc[r - 1] # "none"   \* requests are numbered as they arrive
    /\ \E q \in [route : {"transcribe"}, file : Uploads, form : Forms]
            \cup {[route |-> "health", file |-> <<>>, form |-> NoForm]} :
          req' = [req EXCEPT ![r] = q]
    /\ pc' = [pc EXCEPT ![r] = "ready"]
    /\ UNCHANGED <<scriptVars, loop, audio_bytes, calls, retval, response>>

\* faulty variant of HealthBody: the status tells whether a transcription is
\* in progress
HealthBodyBusy ==
    {<<"status", IF \E q \in Requests : pc[q] = "awaiting" THEN "busy" ELSE "ok">>,
     <<"model", MODEL_SIZE>>}

\* lines 33-36: health()
HealthBody == {<<"status", "ok">>, <<"model", MODEL_SIZE>>}

health(r) ==
    /\ loop = 0
    /\ pc[r] = "ready"
    /\ req[r].route = "health"
    /\ retval' = [retval EXCEPT ![r] = Dict(HealthBody)]
    /\ pc' = [pc EXCEPT ![r] = "returned"]
    /\ UNCHANGED <<scriptVars, loop, req, audio_bytes, calls, response>>

\* lines 38-48: transcribe_audio(file) is entered and runs up to the await
Enter(r) ==
    /\ loop = 0
    /\ pc[r] = "ready"
    /\ req[r].route = "transcribe"
    /\ loop' = r
    /\ pc' = [pc EXCEPT ![r] = "line50"]
    /\ UNCHANGED <<scriptVars, req, audio_bytes, calls, retval, response>>

\* faulty variant of Caught: the except clause does not match the exception,
\* which leaves the handler
Uncaught(r, msg) ==
    /\ pc' = [pc EXCEPT ![r] = "escaped"]
    /\ loop' = 0
    /\ UNCHANGED retval

\* lines 66-68: an Exception raised inside the try block is caught and the
\* handler returns the tuple ({"error": str(e)}, 500)
Caught(r, msg) ==
    /\ retval' = [retval EXCEPT ![r] = DictIntTuple({<<"error", msg>>}, 500)]
    /\ pc' = [pc EXCEPT ![r] = "returned"]
    /\ loop' = 0

\* faulty variant of ReadResult: file.read(1), the first frame only
ReadResultPartial(r) == SubSeq(req[r].file, 1, IF Len(req[r].file) > 1 THEN 1 ELSE Len(req[r].file))

\* line 50: file.read() returns the whole upload
ReadResult(r) == req[r].file

\* line 50: await file.read() on an upload held in memory completes at once
ReadInMemory(r) ==
    /\ loop = r
    /\ pc[r] = "line50"
    /\ audio_bytes' = [audio_bytes EXCEPT ![r] = ReadResult(r)]
    /\ pc' = [pc EXCEPT ![r] = "line55"]
    /\ UNCHANGED <<scriptVars, loop, req, calls, retval, response>>

\* line 50: file.read() raises at once
ReadRaises(r) ==
    /\ loop = r
    /\ pc[r] = "line50"
    /\ Caught(r, ReadMessage)
    /\ UNCHANGED <<scriptVars, req, audio_bytes, calls, response>>

\* line 50: the upload was spooled to disk, the read runs in the thread pool
\* and the coroutine is suspended: the event loop is free
ReadInThreadpool(r) ==
    /\ loop = r
    /\ pc[r] = "line50"
    /\ pc' = [pc EXCEPT ![r] = "awaiting"]
    /\ loop' = 0
    /\ UNCHANGED <<scriptVars, req, audio_bytes, calls, retval, response>>

\* line 50: the thread pool's read has ended and the event loop resumes the
\* coroutine with the bytes
Resume(r) ==
    /\ loop = 0
    /\ pc[r] = "awaiting"
    /\ loop' = r
    /\ audio_bytes' = [audio_bytes EXCEPT ![r] = ReadResult(r)]
    /\ pc' = [pc EXCEPT ![r] = "line55"]
    /\ UNCHANGED <<scriptVars, req, calls, retval, response>>

\* line 50: the thread pool's read has raised and the event loop resumes the
\* coroutine with the exception
ResumeRaises(r) ==
    /\ loop = 0
    /\ pc[r] = "awaiting"
    /\ Caught(r, ReadMessage)
    /\ UNCHANGED <<scriptVars, req, audio_bytes, calls, response>>

\* faulty variant of AudioArg: audio_bytes is a module global, so the call sees
\* what the latest request to have read its upload stored there
AudioArgShared(r) ==
    LET S == {q \in Requests : audio_bytes[q] # Unset}
    IN  audio_bytes[CHOOSE q \in S : \A p \in S : q >= p]

\* line 56: io.BytesIO(audio_bytes)
AudioArg(r) == audio_bytes[r]

\* faulty variant of TranscribeKwargs: the form's language field is honoured
TranscribeKwargsFromForm(r) ==
    [beam_size |-> 5,
     language |-> IF req[r].form.language = "absent" THEN "es"
                  ELSE req[r].form.language]

\* lines 57-58: beam_size=5, language="es"
TranscribeKwargs(r) == [beam_size |-> 5, language |-> "es"]

\* faulty variant of Line55: the call is awaited in the thread pool, so the
\* coroutine gives up the event loop
Line55Yields(r) ==
    /\ loop = r
    /\ pc[r] = "line55"
    /\ calls' = [calls EXCEPT ![r] = Append(@,
                    [model |-> model.id, audio |-> AudioArg(r),
                     kwargs |-> TranscribeKwargs(r)])]
    /\ IF DecodeRaises(AudioArg(r))
       THEN /\ Caught(r, DecodeMessage)
       ELSE /\ pc' = [pc EXCEPT ![r] = "line62"]
            /\ loop' = 0
            /\ UNCHANGED retval
    /\ UNCHANGED <<scriptVars, req, audio_bytes, response>>

\* lines 55-59: segments, info = model.transcribe(...), a plain call
Line55(r) ==
    /\ loop = r
    /\ pc[r] = "line55"
    /\ calls' = [calls EXCEPT ![r] = Append(@,
                    [model |-> model.id, audio |-> AudioArg(r),
                     kwargs |-> TranscribeKwargs(r)])]
    /\ IF DecodeRaises(AudioArg(r))
       THEN /\ Caught(r, DecodeMessage)
       ELSE /\ pc' = [pc EXCEPT ![r] = "line62"]
            /\ UNCHANGED <<loop, retval>>
    /\ UNCHANGED <<scriptVars, req, audio_bytes, response>>

\* the audio the generator `segments` was made for
SegmentsAudio(r) == calls[r][Len(calls[r])].audio

\* faulty variant of TextsToJoin: the texts are kept in a module-level list that
\* is never cleared, so they pile up from one request to the next
RECURSIVE TextsOfRequests(_)
TextsOfRequests(n) ==
    IF n = 0 THEN <<>>
    ELSE TextsOfRequests(n - 1) \o
         (IF calls[n] # <<>> /\ ~GeneratorRaises(calls[n][1].audio)
          THEN SegmentTexts(calls[n][1].audio) ELSE <<>>)
TextsAccumulated(r) == TextsOfRequests(r)

\* line 62: [segment.text for segment in segments]
TextsToJoin(r) == SegmentTexts(SegmentsAudio(r))

\* lines 61-65: the list comprehension drains the generator, the texts are
\* joined and {"text": text} is returned
Line62(r) ==
    /\ loop = r
    /\ pc[r] = "line62"
    /\ IF GeneratorRaises(SegmentsAudio(r))
       THEN /\ Caught(r, GeneratorMessage)
       ELSE /\ retval' = [retval EXCEPT ![r] =
                  Dict({<<"text", Join(" ", TextsToJoin(r))>>})]
            /\ pc' = [pc EXCEPT ![r] = "returned"]
            /\ loop' = 0
    /\ UNCHANGED <<scriptVars, req, audio_bytes, calls, response>>

\* FastAPI encodes the returned value and sends the response
Respond(r) ==
    /\ loop = 0
    /\ pc[r] = "returned"
    /\ response' = [response EXCEPT ![r] = JsonResponse(retval[r])]
    /\ pc' = [pc EXCEPT ![r] = "responded"]
    /\ UNCHANGED <<scriptVars, loop, req, audio_bytes, calls, retval>>

Next ==
    \/ AssignModelSize
    \/ LoadModel
    \/ LoadModelFails
    \/ RunServer
    \/ \E r \in Requests :
        \/ Arrive(r)
        \/ health(r)
        \/ Enter(r)
        \/ ReadInMemory(r)
        \/ ReadRaises(r)
        \/ ReadInThreadpool(r)
        \/ Resume(r)
        \/ ResumeRaises(r)
        \/ Line55(r)
        \/ Line62(r)
        \/ Respond(r)

Spec == Init /\ [][Next]_vars
\* ------------------------------------------------------------ properties
Transcriptions == {r \in Requests : req[r].route = "transcribe"}
HealthChecks == {r \in Requests : req[r].route = "health"}
Handled(r) == pc[r] \notin {"none", "ready"}
Answered(r) == pc[r] = "responded"
\* r's handler returned from line 65
Succeeded(r) == r \in Transcriptions /\ Answered(r) /\ retval[r].py = "dict"
\* r's handler returned from line 68
Failed(r) == r \in Transcriptions /\ Answered(r) /\ retval[r].py = "tuple"
\* r's read of its upload raised: the handler ended without assigning audio_bytes
ReadFailed(r) == r \in Transcriptions /\ Answered(r) /\ audio_bytes[r] = Unset

ErrorObject(status, msg) ==
    [status |-> status, json |-> "object", items |-> {<<"error", msg>>}, rest |-> <<>>]
TextObject(t) ==
    [status |-> 200, json |-> "object", items |-> {<<"text", t>>}, rest |-> <<>>]

\* C1: the model is loaded exactly once, before the server accepts a request:
\* whenever a request has reached the server the one load has completed,
\* while serving the model is the instance that load made, and every
\* model.transcribe call was made on that instance.
C1_LoadedOnceAtStartup ==
    /\ loads <= 1
    /\ mainPc = "serving" => (loads = 1 /\ model.id = 1 /\ model # NoModel)
    /\ \A r \in Requests :
          /\ pc[r] # "none" => (mainPc = "serving" /\ loads = 1)
          /\ \A i \in 1..Len(calls[r]) : calls[r][i].model = 1

C1_Witness ==
    \E r1, r2 \in Transcriptions :
        /\ r1 # r2
        /\ Answered(r1) /\ Answered(r2)
        /\ calls[r1] # <<>> /\ calls[r2] # <<>>

\* C2: when the model call or the iteration over its segments raises, the
\* client receives status 500 and the JSON object {"error": message}.
C2_ErrorIs500 ==
    \A r \in Transcriptions :
        (Answered(r) /\ ~ReadFailed(r)) =>
            /\ DecodeRaises(req[r].file)
                  => response[r] = ErrorObject(500, DecodeMessage)
            /\ (~DecodeRaises(req[r].file) /\ GeneratorRaises(req[r].file))
                  => response[r] = ErrorObject(500, GeneratorMessage)

\* the sum of the lengths of the first n texts of xs
RECURSIVE LenSum(_, _)
LenSum(xs, n) == IF n = 0 THEN 0 ELSE LenSum(xs, n - 1) + Len(xs[n])

\* t is the texts xs in order with exactly one space between two consecutive
\* ones and nothing else: the i-th text starts after the i-1 texts and the
\* i-1 spaces before it
JoinedWithSpaces(t, xs) ==
    LET n == Len(xs)
        Start(i) == LenSum(xs, i - 1) + (i - 1)
    IN  /\ Len(t) = LenSum(xs, n) + (IF n = 0 THEN 0 ELSE n - 1)
        /\ \A i \in 1..n : SubSeq(t, Start(i) + 1, Start(i) + Len(xs[i])) = xs[i]
        /\ \A i \in 1..(n - 1) :
              SubSeq(t, Start(i + 1), Start(i + 1)) = " "
        /\ n = 0 => t = ""
        /\ n = 1 => t = xs[1]

\* C3: a successful transcription is answered with {"text": t}, t being the
\* segments' texts in the model's order, one space between consecutive ones.
C3_TextIsJoinedSegments ==
    \A r \in Requests :
        Succeeded(r) =>
            /\ response[r].status = 200
            /\ response[r].json = "object"
            /\ response[r].rest = <<>>
            /\ \E t \in {kv[2] : kv \in response[r].items} :
                  /\ response[r].items = {<<"text", t>>}
                  /\ JoinedWithSpaces(t, SegmentTexts(req[r].file))

C3_Witness ==
    /\ \E r \in Requests : Succeeded(r) /\ Len(SegmentTexts(req[r].file)) = 3
    /\ \E r \in Requests : Succeeded(r) /\ Len(SegmentTexts(req[r].file)) = 0

\* C4: every health request is answered with status 200 and
\* {"status": "ok", "model": M}, M the name the model was loaded with,
\* whatever transcription requests the server has had.
C4_HealthAnswer ==
    \A r \in HealthChecks :
        Answered(r) =>
            response[r] = [status |-> 200, json |-> "object",
                           items |-> {<<"status", "ok">>, <<"model", model.size>>},
                           rest |-> <<>>]

C4_Witness ==
    \E h \in HealthChecks, t \in Transcriptions :
        /\ Answered(h)
        /\ t < h
        /\ pc[t] = "awaiting"

\* C5 as stated: every answered transcription request made exactly one
\* model call, on the whole upload.
C5_ExactlyOneCall ==
    \A r \in Transcriptions :
        Answered(r) => (Len(calls[r]) = 1 /\ calls[r][1].audio = req[r].file)

\* C5 amended: a handler calls the model at most once and only after its read
\* has returned, with the whole upload; an answered request has made the call
\* exactly when its read did not raise, and a successful answer carries the
\* text the model returned for the upload.
C5_OneCallAfterRead ==
    \A r \in Transcriptions :
        /\ Len(calls[r]) <= 1
        /\ calls[r] # <<>> =>
              /\ audio_bytes[r] # Unset
              /\ calls[r][1].audio = req[r].file
              /\ pc[r] \notin {"line50", "awaiting", "line55"}
        /\ Answered(r) => (calls[r] # <<>> <=> ~ReadFailed(r))
        /\ ReadFailed(r) => retval[r].items = {<<"error", ReadMessage>>}
        /\ Succeeded(r) =>
              response[r].items = {<<"text", Join(" ", SegmentTexts(req[r].file))>>}

C5_Witness ==
    /\ \E r \in Transcriptions : ReadFailed(r) /\ calls[r] = <<>>
    /\ \E r \in Transcriptions : Succeeded(r) /\ Len(req[r].file) = 2

\* what a server that has handled nothing answers to an upload whose read
\* does not raise
FreshAnswer(file) ==
    IF DecodeRaises(file)
    THEN JsonResponse(DictIntTuple({<<"error", DecodeMessage>>}, 500))
    ELSE IF GeneratorRaises(file)
    THEN JsonResponse(DictIntTuple({<<"error", GeneratorMessage>>}, 500))
    ELSE JsonResponse(Dict({<<"text", Join(" ", SegmentTexts(file))>>}))
ReadFailedAnswer == JsonResponse(DictIntTuple({<<"error", ReadMessage>>}, 500))

\* C6: requests leave the model and its name as the load made them, and an
\* answer depends on the request's own upload alone: it is what a fresh
\* server answers, whatever was handled before.
C6_NoStateAcrossRequests ==
    /\ mainPc = "serving" =>
          /\ MODEL_SIZE = "base"
          /\ model = [id |-> 1, size |-> "base", device |-> "cpu",
                      compute_type |-> "int8"]
    /\ \A r \in Transcriptions :
          Answered(r) =>
              response[r] = IF ReadFailed(r) THEN ReadFailedAnswer
                            ELSE FreshAnswer(req[r].file)

C6_Witness ==
    \E e, v \in Transcriptions :
        /\ e < v
        /\ Failed(e)
        /\ Succeeded(v) /\ SegmentTexts(req[v].file) # <<>>

\* C7: every model call has beam_size 5 and language "es", and two requests
\* with the same upload make the same call and get the same answer whatever
\* their form fields model and language are.
C7_FormFieldsIgnored ==
    /\ \A r \in Requests : \A i \in 1..Len(calls[r]) :
          calls[r][i].kwargs = [beam_size |-> 5, language |-> "es"]
    /\ \A r1, r2 \in Transcriptions :
          (/\ Answered(r1) /\ Answered(r2)
           /\ req[r1].file = req[r2].file
           /\ ~ReadFailed(r1) /\ ~ReadFailed(r2))
          => (calls[r1] = calls[r2] /\ response[r1] = response[r2])

C7_Witness ==
    \E r1, r2 \in Transcriptions :
        /\ Succeeded(r1) /\ Succeeded(r2)
        /\ req[r1].file = req[r2].file
        /\ req[r1].form.model # req[r2].form.model
        /\ req[r1].form.language # req[r2].form.language

\* C8: with handlers interleaved at the await, each handler's audio_bytes is
\* its own upload, its model call is on its own upload and its answer is the
\* transcription of its own upload.
C8_OwnBytesOnly ==
    \A r \in Transcriptions :
        /\ audio_bytes[r] \in {Unset, req[r].file}
        /\ \A i \in 1..Len(calls[r]) : calls[r][i].audio = req[r].file
        /\ Succeeded(r) =>
              response[r] = TextObject(Join(" ", SegmentTexts(req[r].file)))

C8_Witness ==
    \E r1, r2 \in Transcriptions :
        /\ r1 < r2
        /\ pc[r1] = "awaiting"
        /\ Succeeded(r2)
        /\ SegmentTexts(req[r1].file) # SegmentTexts(req[r2].file)

\* the handlers between the end of their read and their return
PastRead == {r \in Requests : pc[r] \in {"line55", "line62"}}

\* C9: a handler that is past its read holds the event loop until it returns:
\* at most one handler is past its read, and while one is, no step belongs to
\* another request.
C9_NoYieldAfterRead ==
    [][/\ Cardinality(PastRead) <= 1
       /\ \A r \in PastRead :
             /\ loop = r
             /\ \A q \in Requests \ {r} :
                   /\ pc'[q] = pc[q]
                   /\ req'[q] = req[q]
                   /\ retval'[q] = retval[q]
                   /\ response'[q] = response[q]]_vars

C9_Witness ==
    \E r, q \in Requests :
        /\ pc[r] = "line62"
        /\ pc[q] = "awaiting"

====
